---- MODULE Spec2Model ----
(***************************************************************************)
(* Model of run.py: configure/build/run of a single C/C++ source file     *)
(* through CMake, with a fallback to direct compilation.                  *)
(*                                                                         *)
(* Three specifications share the module:                                 *)
(*   SpecTarget  normalize_target_in_project applied to bounded paths     *)
(*   SpecGen     read_capabilities + choose_generator on bounded outputs  *)
(*   Spec        main(), one action per step of the orchestration         *)
(*                                                                         *)
(* Strings whose characters matter (file names, generator names) are      *)
(* sequences of one-character strings.  Paths are POSIX paths.            *)
(***************************************************************************)
EXTENDS Integers, Sequences, FiniteSets, TLC

VARIABLES
    \* normalize_target_in_project
    t_pc, t_file_path, t_target,
    \* choose_generator
    g_pc, preferred, query, chosen,
    \* main: the command line and the environment
    parsed, DEFAULT_CONFIG, file_abs, cmake_on_path,
    \* main: its position and local variables
    pc, in_project, is_c, build_config, compiler, generator, target, binary,
    cleanup_dir,
    \* main: the file system, the log file, the output, the exit status and
    \* the history of the steps taken
    files, log, stdout, exit_code, steps

t_vars == <<t_pc, t_file_path, t_target>>

g_vars == <<g_pc, preferred, query, chosen>>

m_vars ==
    <<parsed, DEFAULT_CONFIG, file_abs, cmake_on_path, pc, in_project, is_c,
      build_config, compiler, generator, target, binary, cleanup_dir, files,
      log, stdout, exit_code, steps>>

vars == <<t_vars, g_vars, m_vars>>

\* Python's None
NoneVal == "None"

\* Path | None
NoPath == [parent |-> "", name |-> ""]

\* main is not part of the run
MainIdle ==
    /\ parsed = [file |-> "", generator |-> NoneVal, config |-> NoneVal,
                 cmake_arg |-> <<>>, build_arg |-> <<>>, args |-> <<>>,
                 list_generators |-> FALSE, print_binary |-> FALSE]
    /\ DEFAULT_CONFIG = "Debug"
    /\ file_abs = <<>>
    /\ cmake_on_path = FALSE
    /\ pc = "off"
    /\ in_project = FALSE
    /\ is_c = FALSE
    /\ build_config = NoneVal
    /\ compiler = NoneVal
    /\ generator = NoneVal
    /\ target = NoneVal
    /\ binary = NoPath
    /\ cleanup_dir = NoneVal
    /\ files = {}
    /\ log = <<>>
    /\ stdout = <<>>
    /\ exit_code = <<>>
    /\ steps = <<>>

\* the resolver is not part of the run
TargetIdle == t_pc = "off" /\ t_file_path = <<>> /\ t_target = <<>>

(***************************************************************************)
(* Bounds                                                                  *)
(***************************************************************************)
MaxNameLen == 3
MaxDirs == 2
MaxGenerators == 2
MaxPreferred == 2

(***************************************************************************)
(* Character strings                                                       *)
(***************************************************************************)
\* characters of file names: a lowercase letter, its uppercase, '_' and '.'
NameChars == {"c", "C", "_", "."}

\* str.lower() on one character
LowerChar(ch) ==
    CASE ch = "C" -> "c"
      [] ch = "M" -> "m"
      [] ch = "N" -> "n"
      [] ch = "S" -> "s"
      [] ch = "U" -> "u"
      [] ch = "V" -> "v"
      [] ch = "G" -> "g"
      [] ch = "W" -> "w"
      [] ch = "X" -> "x"
      [] OTHER -> ch

\* str.lower()
lower(s) == [i \in 1..Len(s) |-> LowerChar(s[i])]

\* str.rfind(ch), 1-based; 0 when ch does not occur
rfind(s, ch) ==
    LET hits == {i \in 1..Len(s) : s[i] = ch}
    IN  IF hits = {} THEN 0 ELSE CHOOSE i \in hits : \A j \in hits : j <= i

\* str.lstrip(ch)
lstrip(s, ch) ==
    LET keep == {i \in 1..Len(s) : s[i] # ch}
    IN  IF keep = {} THEN <<>>
        ELSE SubSeq(s, CHOOSE i \in keep : \A j \in keep : i <= j, Len(s))

\* str.replace(old, new) for one-character old and new
replace(s, old, new) == [i \in 1..Len(s) |-> IF s[i] = old THEN new ELSE s[i]]

\* needle in haystack (substring test)
Contains(haystack, needle) ==
    \E i \in 0..(Len(haystack) - Len(needle)) :
        SubSeq(haystack, i + 1, i + Len(needle)) = needle

(***************************************************************************)
(* pathlib (POSIX flavour).  A path is the sequence of its components      *)
(* below "/"; a component is a non-empty character string.                *)
(***************************************************************************)
\* PurePath.name
name(path) == IF path = <<>> THEN <<>> ELSE path[Len(path)]

\* PurePath.suffix: the part of the name from its last '.', unless that
\* '.' is the first or the last character of the name
suffix(path) ==
    LET n == name(path)
        i == rfind(n, ".")
    IN  IF 1 < i /\ i < Len(n) THEN SubSeq(n, i, Len(n)) ELSE <<>>

\* PurePath.with_suffix("")
with_suffix(path) ==
    LET n == name(path)
        old_suffix == suffix(path)
    IN  SubSeq(path, 1, Len(path) - 1)
            \o << SubSeq(n, 1, Len(n) - Len(old_suffix)) >>

\* PurePath.as_posix() of a relative path: components joined by '/'
RECURSIVE as_posix(_)
as_posix(path) ==
    IF path = <<>> THEN <<>>
    ELSE IF Len(path) = 1 THEN path[1]
    ELSE path[1] \o <<"/">> \o as_posix(Tail(path))

\* PurePath.relative_to(other): ok = FALSE stands for ValueError
relative_to(path, other) ==
    IF Len(other) <= Len(path) /\ SubSeq(path, 1, Len(other)) = other
    THEN [ok |-> TRUE, rel |-> SubSeq(path, Len(other) + 1, Len(path))]
    ELSE [ok |-> FALSE, rel |-> <<>>]

(***************************************************************************)
(* normalize_target_in_project                                             *)
(***************************************************************************)
\* a plausible slip: the whole identifier is lowercased, not only the extension
normalize_target_lower_all(fp, project_root) ==
    LET r == relative_to(fp, project_root)
        rel == IF r.ok THEN r.rel ELSE <<name(fp)>>
        posix_no_ext == as_posix(with_suffix(rel))
        base == replace(posix_no_ext, "/", "_")
        ext == lstrip(lower(suffix(fp)), ".")
    IN  lower(IF ext # <<>> THEN base \o <<"_">> \o ext ELSE base)

normalize_target_in_project(fp, project_root) ==
    LET r == relative_to(fp, project_root)
        rel == IF r.ok THEN r.rel ELSE <<name(fp)>>
        posix_no_ext == as_posix(with_suffix(rel))
        base == replace(posix_no_ext, "/", "_")
        ext == lstrip(lower(suffix(fp)), ".")
    IN  IF ext # <<>> THEN base \o <<"_">> \o ext ELSE base

(***************************************************************************)
(* Inputs of the resolver                                                  *)
(***************************************************************************)
RECURSIVE StringsUpTo(_, _)
StringsUpTo(chars, n) ==
    IF n = 0 THEN {<<>>}
    ELSE LET shorter == StringsUpTo(chars, n - 1)
         IN  shorter \cup {s \o <<ch>> : s \in shorter, ch \in chars}

\* file names: non-empty, and neither "." nor ".."
FileNames ==
    StringsUpTo(NameChars, MaxNameLen) \ {<<>>, <<".">>, <<".", ".">>}

\* directory names
DirNames == {<<"c">>, <<"_">>, <<"c", ".", "c">>}

RECURSIVE DirPaths(_)
DirPaths(n) ==
    IF n = 0 THEN {<<>>}
    ELSE LET shorter == DirPaths(n - 1)
         IN  shorter \cup {d \o <<c>> : d \in shorter, c \in DirNames}

\* Path.cwd().resolve(): the project root is the directory /c
ProjectRoot == << <<"c">> >>

\* resolved absolute paths of source files
Files == {d \o <<n>> : d \in DirPaths(MaxDirs), n \in FileNames} \ {ProjectRoot}

InProject(fp) == relative_to(fp, ProjectRoot).ok

InsideFiles == {f \in Files : InProject(f)}

OutsideFiles == Files \ InsideFiles

(***************************************************************************)
(* Generators                                                              *)
(***************************************************************************)
PREFERRED_GENERATORS ==
    <<"Ninja Multi-Config", "Ninja", "Unix Makefiles", "MinGW Makefiles",
      "Visual Studio 17 2022">>

\* the characters of the generator names the model uses
Chars(str) ==
    CASE str = "Ninja Multi-Config" ->
            <<"N", "i", "n", "j", "a", " ", "M", "u", "l", "t", "i", "-", "C", "o", "n", "f", "i", "g">>
      [] str = "Ninja" ->
            <<"N", "i", "n", "j", "a">>
      [] str = "Unix Makefiles" ->
            <<"U", "n", "i", "x", " ", "M", "a", "k", "e", "f", "i", "l", "e", "s">>
      [] str = "MinGW Makefiles" ->
            <<"M", "i", "n", "G", "W", " ", "M", "a", "k", "e", "f", "i", "l", "e", "s">>
      [] str = "Visual Studio 17 2022" ->
            <<"V", "i", "s", "u", "a", "l", " ", "S", "t", "u", "d", "i", "o", " ", "1", "7", " ", "2", "0", "2", "2">>
      [] str = "Xcode" ->
            <<"X", "c", "o", "d", "e">>
      [] OTHER -> <<>>

(***************************************************************************)
(* The capability query: `cmake -E capabilities` and json.loads            *)
(*                                                                         *)
(* A JSON value is a record with its type t.  The value of "generators"   *)
(* carries the items Python iterates over (the elements of an array, the  *)
(* characters of a string, the keys of an object); an item carries the    *)
(* value of its "name" member.                                            *)
(***************************************************************************)
\* generator names a capability manifest may report
ReportedNames == {"Ninja Multi-Config", "Ninja", "Unix Makefiles", "Xcode"}

AbsentName == [t |-> "absent", s |-> ""]

\* the value g.get("name") of an item: absent (None), or a JSON value
NameValues ==
    {[t |-> x, s |-> ""] : x \in {"absent", "null", "number", "array"}}
        \cup {[t |-> "string", s |-> g] : g \in ReportedNames}

\* the items of the "generators" value
Items ==
    {[t |-> "object", name |-> nv] : nv \in NameValues}
        \cup {[t |-> x, name |-> AbsentName] :
                x \in {"string", "number", "null", "array"}}

RECURSIVE ItemSeqs(_)
ItemSeqs(n) ==
    IF n = 0 THEN {<<>>}
    ELSE LET shorter == ItemSeqs(n - 1)
         IN  shorter \cup {q \o <<e>> : q \in shorter, e \in Items}

StringItem == [t |-> "string", name |-> AbsentName]

\* the value of the "generators" member
GeneratorsValues ==
    {[t |-> "array", items |-> q] : q \in ItemSeqs(MaxGenerators)}
        \cup {[t |-> x, items |-> <<>>] : x \in {"absent", "null", "number"}}
        \cup {[t |-> x, items |-> q] :
                x \in {"string", "object"}, q \in {<<>>, <<StringItem>>}}

AbsentGenerators == [t |-> "absent", items |-> <<>>]

\* what json.loads can return
JsonDocs ==
    {[t |-> "object", generators |-> gv] : gv \in GeneratorsValues}
        \cup {[t |-> x, generators |-> AbsentGenerators] :
                x \in {"array", "string", "number", "null"}}

\* the outcomes of subprocess.run(["cmake", "-E", "capabilities"]) followed
\* by json.loads(result.stdout)
QueryOutcomes ==
    {[kind |-> k, doc |-> [t |-> "null", generators |-> AbsentGenerators]] :
        k \in {"FileNotFoundError", "CalledProcessError", "JSONDecodeError"}}
        \cup {[kind |-> "json", doc |-> d] : d \in JsonDocs}

\* the empty dict {}
EmptyDict == [t |-> "object", generators |-> AbsentGenerators]

read_capabilities(q) ==
    IF q.kind \in {"CalledProcessError", "FileNotFoundError", "JSONDecodeError"}
    THEN EmptyDict
    ELSE q.doc

\* the exception, if any, raised by
\*   {g.get("name") for g in data.get("generators", [])}
AvailableError(data) ==
    LET gv == data.generators
        bad == {i \in 1..Len(gv.items) :
                    \/ gv.items[i].t # "object"
                    \/ gv.items[i].name.t \in {"array", "object"}}
        first == CHOOSE i \in bad : \A j \in bad : i <= j
    IN  IF data.t # "object" THEN "AttributeError"       \* no .get
        ELSE IF gv.t \in {"null", "number"} THEN "TypeError"  \* not iterable
        ELSE IF bad = {} THEN "none"
        ELSE IF gv.items[first].t # "object" THEN "AttributeError"
        ELSE "TypeError"                                  \* unhashable

\* the set {g.get("name") for g in data.get("generators", [])}
Available(data) ==
    {data.generators.items[i].name : i \in 1..Len(data.generators.items)}

\* choose_generator: exc names the exception that escapes, value the
\* returned candidate (NoneVal for None)
choose_generator(pref, q) ==
    LET data == read_capabilities(q)
        exc == AvailableError(data)
        available == Available(data)
        hits == {i \in 1..Len(pref) :
                    [t |-> "string", s |-> pref[i]] \in available}
    IN  IF exc # "none" THEN [exc |-> exc, value |-> NoneVal]
        ELSE IF hits = {} THEN [exc |-> "none", value |-> NoneVal]
        ELSE [exc |-> "none",
              value |-> pref[CHOOSE i \in hits : \A j \in hits : i <= j]]

(***************************************************************************)
(* SpecGen: one call of choose_generator                                   *)
(***************************************************************************)
RECURSIVE SeqsUpTo(_, _)
SeqsUpTo(S, n) ==
    IF n = 0 THEN {<<>>}
    ELSE LET shorter == SeqsUpTo(S, n - 1)
         IN  shorter \cup {q \o <<e>> : q \in shorter, e \in S}

\* preference lists: the program's own, and short lists of candidates
PreferenceLists ==
    {PREFERRED_GENERATORS}
        \cup SeqsUpTo({"Ninja Multi-Config", "Ninja", "MinGW Makefiles"},
                      MaxPreferred)

GenIdle ==
    /\ g_pc = "off"
    /\ preferred = <<>>
    /\ query = [kind |-> "FileNotFoundError",
                doc |-> [t |-> "null", generators |-> AbsentGenerators]]
    /\ chosen = [exc |-> "none", value |-> NoneVal]

InitGen ==
    /\ g_pc = "call"
    /\ preferred \in PreferenceLists
    /\ query \in QueryOutcomes
    /\ chosen = [exc |-> "none", value |-> NoneVal]
    /\ TargetIdle
    /\ MainIdle

ChooseGenerator ==
    /\ g_pc = "call"
    /\ chosen' = choose_generator(preferred, query)
    /\ g_pc' = IF chosen'.exc = "none" THEN "returned" ELSE "raised"
    /\ UNCHANGED <<preferred, query, t_vars, m_vars>>

NextGen == ChooseGenerator

SpecGen == InitGen /\ [][NextGen]_vars

\* the generator names a query outcome reports: the string "name" members
\* of the items of a parsed output, none when the query failed
Reported(q) ==
    IF q.kind # "json" THEN {}
    ELSE {q.doc.generators.items[i].name.s :
            i \in {j \in 1..Len(q.doc.generators.items) :
                      q.doc.generators.items[j].name.t = "string"}}

\* C3: for every preference list and query outcome choose_generator
\* returns without raising, and returns the earliest entry of the
\* preference list that is reported, or None when no entry is reported.
C3_FirstReportedOrNone ==
    g_pc # "call" =>
        /\ g_pc = "returned"
        /\ chosen.exc = "none"
        /\ \/ /\ chosen.value = NoneVal
              /\ \A i \in 1..Len(preferred) : preferred[i] \notin Reported(query)
           \/ \E i \in 1..Len(preferred) :
                /\ chosen.value = preferred[i]
                /\ preferred[i] \in Reported(query)
                /\ \A j \in 1..(i - 1) : preferred[j] \notin Reported(query)

(***************************************************************************)
(* Properties of normalize_target_in_project                               *)
(***************************************************************************)
\* the identifier of every file strictly inside the project root
InsideTargets ==
    [g \in InsideFiles |-> normalize_target_in_project(g, ProjectRoot)]

\* the file's path below the project root
RelPath(fp) == relative_to(fp, ProjectRoot).rel

\* files inside the root that have an extension and no '_' in their
\* relative path
EligibleFiles ==
    {g \in InsideFiles :
        /\ suffix(g) # <<>>
        /\ ~Contains(as_posix(RelPath(g)), <<"_">>)}

\* (relative path without extension, extension ignoring case)
StemAndExt ==
    [g \in InsideFiles |->
        <<with_suffix(RelPath(g)), lower(lstrip(suffix(g), "."))>>]

\* C1 as stated: no two distinct files strictly inside the project root
\* (hence no two distinct (relative path, extension) pairs) receive the
\* same target identifier.
C1_Injective ==
    (t_pc = "returned" /\ t_file_path \in InsideFiles) =>
        \A g \in InsideFiles : g # t_file_path => InsideTargets[g] # t_target

\* C1 amended: among the files strictly inside the project root that have
\* a non-empty extension and no '_' in their relative path, two files
\* receive the same identifier exactly when their relative paths without
\* extension are equal and their extensions are equal ignoring case.
C1_InjectiveUpToCase ==
    (t_pc = "returned" /\ t_file_path \in EligibleFiles) =>
        \A g \in EligibleFiles :
            (InsideTargets[g] = t_target) <=> (StemAndExt[g] = StemAndExt[t_file_path])

\* /c/c/C.c resolved to c_C_c while /c/c/c.c, which differs only in the
\* case of the stem, resolves to another identifier
C1_Witness ==
    /\ t_pc = "returned"
    /\ t_file_path = << <<"c">>, <<"c">>, <<"C", ".", "c">> >>
    /\ t_file_path \in EligibleFiles
    /\ t_target = <<"c", "_", "C", "_", "c">>
    /\ InsideTargets[<< <<"c">>, <<"c">>, <<"c", ".", "c">> >>] # t_target

\* C2: the identifier returned for a file outside the project root is the
\* identifier of no file inside the project root.
C2_SentinelNeverATarget ==
    (t_pc = "returned" /\ t_file_path \in OutsideFiles) =>
        \A g \in InsideFiles : InsideTargets[g] # t_target


(***************************************************************************)
(* SpecTarget: one call of normalize_target_in_project                     *)
(***************************************************************************)
InitTarget ==
    /\ t_pc = "call"
    /\ t_file_path \in Files
    /\ t_target = <<>>
    /\ GenIdle
    /\ MainIdle

Normalize ==
    /\ t_pc = "call"
    /\ t_target' = normalize_target_in_project(t_file_path, ProjectRoot)
    /\ t_pc' = "returned"
    /\ UNCHANGED <<t_file_path, g_vars, m_vars>>

NextTarget == Normalize

SpecTarget == InitTarget /\ [][NextTarget]_vars

(***************************************************************************)
(* Helpers of main                                                         *)
(***************************************************************************)
LOG_FILE == "build_output.log"

PREFERRED_COMPILERS_C == <<"cc", "gcc", "clang", "cl">>

PREFERRED_COMPILERS_CXX == <<"c++", "g++", "clang++", "cl">>

\* bool(v) of a str | None
Truthy(v) == v # NoneVal /\ v # ""

\* the str of a character sequence
RECURSIVE Str(_)
Str(s) == IF s = <<>> THEN "" ELSE s[1] \o Str(Tail(s))

\* str(path) of a Path
PathStr(path) == path.parent \o "/" \o path.name

\* str(path.resolve()) of a path relative to the working directory
ResolvedStr(path) == "/" \o Str(as_posix(ProjectRoot)) \o "/" \o PathStr(path)

\* a slip: the code is dropped and the default code 1 is used
fail_default_code(message, code) == [out |-> <<message>>, status |-> 1]

\* fail: the lines printed and the exit status (sys.exit keeps the low
\* eight bits of the code)
fail(message, code) == [out |-> <<message>>, status |-> code % 256]

\* a slip: the log is not shown
fail_without_log(message, log_text, code) ==
    [out |-> <<message>>, status |-> code % 256]

\* fail_with_log: as fail, with the content of the log file between the
\* start and the end marker
fail_with_log(message, log_text, code) ==
    [out |-> <<message, "---- build log (" \o LOG_FILE \o ") ----">>
                \o log_text \o <<"---- end log ----">>,
     status |-> code % 256]

\* choose_compiler: the first candidate that shutil.which finds
choose_compiler(pref, on_path) ==
    LET hits == {i \in 1..Len(pref) : pref[i] \in on_path}
    IN  IF hits = {} THEN NoneVal
        ELSE pref[CHOOSE i \in hits : \A j \in hits : i <= j]

\* a slip: only the "multi-config" marker is recognised
is_multi_config_marker_only(gen) ==
    Contains(lower(Chars(gen)),
             <<"m", "u", "l", "t", "i", "-", "c", "o", "n", "f", "i", "g">>)

is_multi_config(gen) ==
    LET lowered == lower(Chars(gen))
    IN  \/ Contains(lowered,
                    <<"m", "u", "l", "t", "i", "-", "c", "o", "n", "f", "i", "g">>)
        \/ Contains(lowered,
                    <<"v", "i", "s", "u", "a", "l", " ", "s", "t", "u", "d", "i", "o">>)

\* the command line of configure_build
configure_cmd(gen, config, extra_args) ==
    <<"cmake", "-S", ".", "-B", "build", "-G", gen, "-Wno-dev">>
        \o (IF ~is_multi_config(gen)
            THEN <<"-DCMAKE_BUILD_TYPE=" \o config>> ELSE <<>>)
        \o extra_args

\* the command line of build_target
build_cmd(tgt, gen, config, extra_args) ==
    <<"cmake", "--build", "build", "--target", tgt>>
        \o (IF is_multi_config(gen) THEN <<"--config", config>> ELSE <<>>)
        \o extra_args

\* the command line of direct_compile (os.name is "posix")
compile_cmd(file, comp, c_source, output) ==
    IF comp = "cl"
    THEN <<comp, file, IF c_source THEN "/TC" ELSE "/TP",
           IF c_source THEN "/std:c17" ELSE "/std:c++20",
           "/Fe" \o output, "/nologo">>
    ELSE <<comp, file, IF c_source THEN "-std=c17" ELSE "-std=c++20",
           "-O0", "-g", "-o", output>>

\* exe_path (os.name is "posix": no ".exe")
exe_path(tgt, gen) ==
    [parent |-> IF is_multi_config(gen) THEN "build/" \o DEFAULT_CONFIG
                ELSE "build",
     name |-> tgt]

\* a slip: the test of in_project is left out
select_strategy_ignoring_project(cmake, inside) ==
    IF ~cmake THEN "DirectCompile" ELSE "ProjectBuild"

\* the nested conditions of main that pick the way to build
select_strategy(cmake, inside) ==
    IF ~cmake THEN "DirectCompile"
    ELSE IF ~inside THEN "DirectCompile"
    ELSE "ProjectBuild"

\* where a successful `cmake --build` leaves the executable: below the
\* directory of the configuration given with --config for a
\* multi-configuration generator, directly below build/ otherwise
BuildOutput(cmd, tgt, gen) ==
    LET at == {i \in 1..(Len(cmd) - 1) : cmd[i] = "--config"}
    IN  [parent |-> IF is_multi_config(gen) /\ at # {}
                    THEN "build/" \o cmd[(CHOOSE i \in at : TRUE) + 1]
                    ELSE "build",
         name |-> tgt]

(***************************************************************************)
(* Inputs of main                                                          *)
(***************************************************************************)
\* return codes of a child process: exit statuses, and -N for a child
\* killed by signal N
ReturnCodes == {0, 1, 7, -11}

\* the source files given on the command line, as resolved paths
MainFiles ==
    { << <<"c">>, <<"c", ".", "c">> >>,
      << <<"c">>, <<"c">>, <<"C", ".", "C">> >>,
      << <<"_">>, <<"c", ".", "c">> >> }

\* -G
GeneratorOptions == {NoneVal, "", "Unix Makefiles", "Visual Studio 17 2022"}

\* --config, and the value of CMAKE_BUILD_CONFIG
ConfigNames == {"Debug", "Release"}

\* --cmake-arg, --build-arg and the trailing arguments
ArgOptions ==
    { [cmake_arg |-> <<>>, build_arg |-> <<>>, args |-> <<>>],
      [cmake_arg |-> <<"-DX=1">>, build_arg |-> <<"-j">>, args |-> <<"x">>] }

\* the compilers shutil.which can find
CompilerSets == {{}, {"gcc", "g++"}, {"clang++", "cl"}}

\* executables left in build/ by earlier runs
StaleFiles == {{}, {"build/c_c"}, {"build/Debug/c_c"}}

NamedItem(g) == [t |-> "object", name |-> [t |-> "string", s |-> g]]

Manifest(names) ==
    [kind |-> "json",
     doc |-> [t |-> "object",
              generators |-> [t |-> "array",
                              items |-> [i \in 1..Len(names) |-> NamedItem(names[i])]]]]

FailedQuery(k) ==
    [kind |-> k, doc |-> [t |-> "null", generators |-> AbsentGenerators]]

\* the outcomes of the capability query in a run of main
MainQueries(cmake) ==
    IF ~cmake THEN {FailedQuery("FileNotFoundError")}
    ELSE { FailedQuery("CalledProcessError"),
           Manifest(<<"Unix Makefiles", "Ninja", "Ninja Multi-Config">>),
           Manifest(<<"Unix Makefiles">>),
           Manifest(<<"Xcode">>),
           [kind |-> "json",
            doc |-> [t |-> "array", generators |-> AbsentGenerators]] }

\* the exception, if any, raised by
\*   [g.get("name") for g in caps.get("generators", [])]
ListError(data) ==
    LET gv == data.generators
        bad == {i \in 1..Len(gv.items) : gv.items[i].t # "object"}
    IN  IF data.t # "object" THEN "AttributeError"
        ELSE IF gv.t \in {"null", "number"} THEN "TypeError"
        ELSE IF bad = {} THEN "none"
        ELSE "AttributeError"

\* the line printed for one generator
GeneratorLine(item) ==
    "- " \o (IF item.name.t = "string" THEN item.name.s ELSE "None")

Event(op, rc, cmd) == [op |-> op, rc |-> rc, cmd |-> cmd]

(***************************************************************************)
(* main                                                                    *)
(***************************************************************************)
Init ==
    /\ file_abs \in MainFiles
    /\ \E g \in GeneratorOptions, c \in ConfigNames \cup {NoneVal},
          a \in ArgOptions, l \in BOOLEAN, b \in BOOLEAN :
            parsed = [file |-> "/" \o Str(as_posix(file_abs)),
                      generator |-> g, config |-> c,
                      cmake_arg |-> a.cmake_arg, build_arg |-> a.build_arg,
                      args |-> a.args,
                      list_generators |-> l, print_binary |-> b]
    /\ DEFAULT_CONFIG \in ConfigNames
    /\ cmake_on_path \in BOOLEAN
    /\ files \in StaleFiles
    /\ log \in {<<>>, <<"(log of the previous run)">>}
    /\ pc = "start"
    /\ in_project = FALSE
    /\ is_c = FALSE
    /\ build_config = NoneVal
    /\ compiler = NoneVal
    /\ generator = NoneVal
    /\ target = NoneVal
    /\ binary = NoPath
    /\ cleanup_dir = NoneVal
    /\ stdout = <<>>
    /\ exit_code = <<>>
    /\ steps = <<>>
    /\ TargetIdle
    /\ GenIdle

\* sys.exit(status) after printing out
Exit(out, status) ==
    /\ stdout' = stdout \o out
    /\ exit_code' = <<status>>
    /\ pc' = "exited"

\* an exception nobody catches: the traceback, exit status 1
Uncaught(exc) == Exit(<<"Traceback: " \o exc>>, 1)

\* lines 153-181: the log file is truncated, the arguments are parsed and
\* the file is located relative to the working directory
ParseArgs ==
    /\ pc = "start"
    /\ log' = <<>>
    /\ in_project' = relative_to(file_abs, ProjectRoot).ok
    /\ binary' = NoPath
    /\ cleanup_dir' = NoneVal
    /\ pc' = "parsed"
    /\ UNCHANGED <<parsed, DEFAULT_CONFIG, file_abs, cmake_on_path, is_c,
                   build_config, compiler, generator, target, files, stdout,
                   exit_code, steps, t_vars, g_vars>>

\* lines 183-193: --list-generators
ListGenerators ==
    /\ pc = "parsed"
    /\ parsed.list_generators
    /\ \E q \in MainQueries(cmake_on_path) :
        LET caps == read_capabilities(q)
            exc == ListError(caps)
            gens == caps.generators.items
        IN  /\ steps' = Append(steps, Event("capabilities", 0, <<"cmake", "-E", "capabilities">>))
            /\ IF exc # "none" THEN Uncaught(exc)
               ELSE IF gens = <<>>
               THEN Exit(<<"No generators found. Ensure CMake is installed and on PATH.">>, 0)
               ELSE Exit(<<"Available CMake generators:">>
                            \o [i \in 1..Len(gens) |-> GeneratorLine(gens[i])], 0)
    /\ UNCHANGED <<parsed, DEFAULT_CONFIG, file_abs, cmake_on_path, in_project,
                   is_c, build_config, compiler, generator, target, binary,
                   cleanup_dir, files, log, t_vars, g_vars>>

\* line 195
IsCSource == lower(suffix(file_abs)) = <<".", "c">>

\* line 196
BuildConfig == IF Truthy(parsed.config) THEN parsed.config ELSE DEFAULT_CONFIG

\* lines 195-213: --print-binary
PrintBinary ==
    /\ pc = "parsed"
    /\ ~parsed.list_generators
    /\ parsed.print_binary
    /\ is_c' = IsCSource
    /\ build_config' = BuildConfig
    /\ IF relative_to(file_abs, ProjectRoot).ok
       THEN LET target_temp == Str(normalize_target_in_project(file_abs, ProjectRoot))
            IN  IF Truthy(parsed.generator)
                THEN /\ Exit(<<ResolvedStr(exe_path(target_temp, parsed.generator))>>, 0)
                     /\ UNCHANGED steps
                ELSE \E q \in MainQueries(cmake_on_path) :
                        LET r == choose_generator(PREFERRED_GENERATORS, q)
                        IN  /\ steps' = Append(steps, Event("capabilities", 0, <<"cmake", "-E", "capabilities">>))
                            /\ IF r.exc # "none" THEN Uncaught(r.exc)
                               ELSE IF Truthy(r.value)
                               THEN Exit(<<ResolvedStr(exe_path(target_temp, r.value))>>, 0)
                               ELSE Exit(<<"(no generator available)">>, 0)
       ELSE /\ Exit(<<"(file outside project)">>, 0)
            /\ UNCHANGED steps
    /\ UNCHANGED <<parsed, DEFAULT_CONFIG, file_abs, cmake_on_path, in_project,
                   compiler, generator, target, binary, cleanup_dir, files,
                   log, t_vars, g_vars>>

\* lines 217-220 and 230-233: the compiler for direct compilation
PickCompiler(notice) ==
    \E on_path \in CompilerSets :
        LET compiler_list == IF IsCSource THEN PREFERRED_COMPILERS_C
                             ELSE PREFERRED_COMPILERS_CXX
            c == choose_compiler(compiler_list, on_path)
        IN  /\ compiler' = c
            /\ steps' = Append(steps, Event("choose_compiler", 0, <<>>))
            /\ IF ~Truthy(c)
               THEN LET f == fail("No compiler found.", 1)
                    IN  Exit(<<notice>> \o f.out, f.status)
               ELSE /\ stdout' = Append(stdout, notice)
                    /\ pc' = "compile"
                    /\ UNCHANGED exit_code

\* lines 195-196 and 215-220: cmake is not on PATH
NoCMakeFallback ==
    /\ pc = "parsed"
    /\ ~parsed.list_generators
    /\ ~parsed.print_binary
    /\ ~cmake_on_path
    /\ select_strategy(cmake_on_path, in_project) = "DirectCompile"
    /\ is_c' = IsCSource
    /\ build_config' = BuildConfig
    /\ PickCompiler("CMake is not installed or not on PATH; falling back to direct compilation.")
    /\ UNCHANGED <<parsed, DEFAULT_CONFIG, file_abs, cmake_on_path, in_project,
                   generator, target, binary, cleanup_dir, files, log,
                   t_vars, g_vars>>

\* lines 195-196 and 228-233: the file is outside the project
OutsideProjectFallback ==
    /\ pc = "parsed"
    /\ ~parsed.list_generators
    /\ ~parsed.print_binary
    /\ cmake_on_path
    /\ select_strategy(cmake_on_path, in_project) = "DirectCompile"
    /\ is_c' = IsCSource
    /\ build_config' = BuildConfig
    /\ PickCompiler("Warning: the provided file is outside this project; falling back to direct compilation.")
    /\ UNCHANGED <<parsed, DEFAULT_CONFIG, file_abs, cmake_on_path, in_project,
                   generator, target, binary, cleanup_dir, files, log,
                   t_vars, g_vars>>

\* lines 195-196 and 240-244: the target and the generator of the project
\* build
ProjectSetup ==
    /\ pc = "parsed"
    /\ ~parsed.list_generators
    /\ ~parsed.print_binary
    /\ select_strategy(cmake_on_path, in_project) = "ProjectBuild"
    /\ is_c' = IsCSource
    /\ build_config' = BuildConfig
    /\ target' = Str(normalize_target_in_project(file_abs, ProjectRoot))
    /\ IF Truthy(parsed.generator)
       THEN /\ generator' = parsed.generator
            /\ steps' = Append(steps, Event("normalize_target", 0, <<>>))
            /\ pc' = "configure"
            /\ UNCHANGED <<stdout, exit_code>>
       ELSE \E q \in MainQueries(cmake_on_path) :
                LET r == choose_generator(PREFERRED_GENERATORS, q)
                IN  /\ generator' = r.value
                    /\ steps' = steps \o
                          <<Event("normalize_target", 0, <<>>),
                            Event("capabilities", 0, <<"cmake", "-E", "capabilities">>)>>
                    /\ IF r.exc # "none" THEN Uncaught(r.exc)
                       ELSE IF ~Truthy(r.value)
                       THEN LET f == fail("No suitable CMake generator found.", 1)
                            IN  Exit(f.out, f.status)
                       ELSE /\ pc' = "configure"
                            /\ UNCHANGED <<stdout, exit_code>>
    /\ UNCHANGED <<parsed, DEFAULT_CONFIG, file_abs, cmake_on_path, in_project,
                   compiler, binary, cleanup_dir, files, log, t_vars, g_vars>>

\* lines 222-226 and 235-239, with direct_compile (112-128)
DirectCompile ==
    /\ pc = "compile"
    /\ \E rc \in ReturnCodes :
        LET temp_dir == IF is_c THEN "/tmp/c-run-0" ELSE "/tmp/cpp-run-0"
            output == [parent |-> temp_dir, name |-> "a.out"]
            cmd == compile_cmd(parsed.file, compiler, is_c, PathStr(output))
            written == log \o <<"Compiling with " \o compiler, "(output of the compiler)">>
        IN  /\ log' = written
            /\ steps' = steps \o <<Event("mkdtemp", 0, <<>>), Event("compile", rc, cmd)>>
            /\ IF rc # 0
               THEN LET f == fail_with_log("Compilation failed.", written, rc)
                    IN  /\ Exit(f.out, f.status)
                        /\ files' = files \cup {temp_dir}
                        /\ UNCHANGED <<binary, cleanup_dir>>
               ELSE /\ files' = files \cup {temp_dir, PathStr(output)}
                    /\ binary' = output
                    /\ cleanup_dir' = output.parent
                    /\ pc' = "execute"
                    /\ UNCHANGED <<stdout, exit_code>>
    /\ UNCHANGED <<parsed, DEFAULT_CONFIG, file_abs, cmake_on_path, in_project,
                   is_c, build_config, compiler, generator, target,
                   t_vars, g_vars>>

\* line 247 with configure_build (78-97), and the handler of lines 249-250
Configure ==
    /\ pc = "configure"
    /\ \E rc \in ReturnCodes :
        LET cmd == configure_cmd(generator, build_config, parsed.cmake_arg)
            written == log \o <<"Configuring with generator: " \o generator,
                                "(output of cmake)">>
        IN  /\ log' = written
            /\ steps' = Append(steps, Event("configure", rc, cmd))
            /\ IF rc # 0
               THEN LET f == fail_with_log("CMake failed.", written, rc)
                    IN  Exit(f.out, f.status)
               ELSE /\ pc' = "build"
                    /\ UNCHANGED <<stdout, exit_code>>
    /\ UNCHANGED <<parsed, DEFAULT_CONFIG, file_abs, cmake_on_path, in_project,
                   is_c, build_config, compiler, generator, target, binary,
                   cleanup_dir, files, t_vars, g_vars>>

\* line 248 with build_target (100-109), and the handler of lines 249-250
Build ==
    /\ pc = "build"
    /\ \E rc \in ReturnCodes :
        LET cmd == build_cmd(target, generator, build_config, parsed.build_arg)
            written == log \o <<"Building target: " \o target, "(output of cmake)">>
        IN  /\ log' = written
            /\ steps' = Append(steps, Event("build", rc, cmd))
            /\ IF rc # 0
               THEN LET f == fail_with_log("CMake failed.", written, rc)
                    IN  /\ Exit(f.out, f.status)
                        /\ UNCHANGED files
               ELSE /\ files' = files \cup {PathStr(BuildOutput(cmd, target, generator))}
                    /\ pc' = "locate"
                    /\ UNCHANGED <<stdout, exit_code>>
    /\ UNCHANGED <<parsed, DEFAULT_CONFIG, file_abs, cmake_on_path, in_project,
                   is_c, build_config, compiler, generator, target, binary,
                   cleanup_dir, t_vars, g_vars>>

\* lines 252-254
LocateBinary ==
    /\ pc = "locate"
    /\ binary' = exe_path(target, generator)
    /\ LET found == PathStr(binary') \in files
       IN  /\ steps' = Append(steps, Event("exists", IF found THEN 0 ELSE 1, <<>>))
           /\ IF ~found
              THEN LET f == fail("Built binary not found.", 1)
                   IN  Exit(f.out, f.status)
              ELSE /\ pc' = "execute"
                   /\ UNCHANGED <<stdout, exit_code>>
    /\ UNCHANGED <<parsed, DEFAULT_CONFIG, file_abs, cmake_on_path, in_project,
                   is_c, build_config, compiler, generator, target,
                   cleanup_dir, files, log, t_vars, g_vars>>

\* the outcomes of running the binary: it exits or is killed (rc), or it
\* cannot be started (OSError)
RunOutcomes ==
    {[kind |-> "returned", rc |-> rc] : rc \in ReturnCodes}
        \cup {[kind |-> "OSError", rc |-> 0]}

\* lines 256-270: the binary is run, the temporary directory is removed in
\* the finally clause, and the process ends
Execute ==
    /\ pc = "execute"
    /\ \E run \in RunOutcomes, rmtree \in {"removed", "OSError"} :
        LET header == <<"--- Executing: " \o PathStr(binary)>>
                        \o (IF parsed.args # <<>> THEN <<"--- Arguments:">> ELSE <<>>)
            cleanup == Truthy(cleanup_dir) /\ cleanup_dir \in files
            ran == Event(IF run.kind = "OSError" THEN "exec_failed" ELSE "exec",
                         run.rc, <<PathStr(binary)>> \o parsed.args)
        IN  /\ cleanup \/ rmtree = "removed"
            /\ steps' = steps \o <<ran>> \o
                    (IF cleanup
                     THEN <<Event("rmtree", IF rmtree = "removed" THEN 0 ELSE 1, <<>>)>>
                     ELSE <<>>)
            /\ files' = IF cleanup /\ rmtree = "removed"
                        THEN files \ {cleanup_dir, cleanup_dir \o "/a.out"}
                        ELSE files
            /\ IF run.kind = "OSError" THEN Exit(header \o <<"Traceback: OSError">>, 1)
               ELSE IF run.rc # 0
               THEN LET f == fail("Executable returned non-zero exit code.", run.rc)
                    IN  Exit(header \o f.out, f.status)
               ELSE Exit(header, 0)
    /\ UNCHANGED <<parsed, DEFAULT_CONFIG, file_abs, cmake_on_path, in_project,
                   is_c, build_config, compiler, generator, target, binary,
                   cleanup_dir, log, t_vars, g_vars>>

Next ==
    \/ ParseArgs
    \/ ListGenerators
    \/ PrintBinary
    \/ NoCMakeFallback
    \/ OutsideProjectFallback
    \/ ProjectSetup
    \/ DirectCompile
    \/ Configure
    \/ Build
    \/ LocateBinary
    \/ Execute

Spec == Init /\ [][Next]_vars

(***************************************************************************)
(* Properties of main                                                      *)
(***************************************************************************)
Exited == pc = "exited"

EarlyExit == parsed.list_generators \/ parsed.print_binary

\* the positions in the history of the steps named by ops
StepsOf(ops) == {i \in 1..Len(steps) : steps[i].op \in ops}

\* the file is strictly below the project root
FileInsideRoot ==
    /\ Len(file_abs) > Len(ProjectRoot)
    /\ \A i \in 1..Len(ProjectRoot) : file_abs[i] = ProjectRoot[i]

DirectTaken == StepsOf({"choose_compiler", "mkdtemp", "compile"}) # {}

ProjectTaken == StepsOf({"normalize_target", "configure", "build", "exists"}) # {}

\* C4: in a run that is not an early exit, once the strategy is selected
\* the direct-compilation path is the one taken exactly when cmake is not
\* on PATH or the file is outside the project root, the project-build path
\* exactly when cmake is on PATH and the file is inside, and never both.
C4_StrategySelection ==
    (pc \notin {"off", "start", "parsed"} /\ ~EarlyExit) =>
        /\ DirectTaken <=> (~cmake_on_path \/ ~FileInsideRoot)
        /\ ProjectTaken <=> (cmake_on_path /\ FileInsideRoot)
        /\ ~(DirectTaken /\ ProjectTaken)

\* cmake is on PATH, the file is outside the root, and the directly
\* compiled binary was run
C4_Witness ==
    /\ Exited /\ ~EarlyExit
    /\ cmake_on_path /\ ~FileInsideRoot
    /\ \E i \in StepsOf({"compile"}) : steps[i].rc = 0
    /\ StepsOf({"exec"}) # {}

\* C5: once a temporary directory has been created, its removal has been
\* attempted when the process has terminated, and the directory is gone
\* unless the removal raised.
C5_TempDirRemoved ==
    Exited =>
        \A i \in StepsOf({"mkdtemp"}) :
            \E j \in StepsOf({"rmtree"}) :
                /\ i < j
                /\ steps[j].rc = 0 => files \cap {"/tmp/c-run-0", "/tmp/cpp-run-0"} = {}

\* the build/compile step succeeded
BuildSucceeded ==
    \/ \E i \in StepsOf({"compile"}) : steps[i].rc = 0
    \/ /\ \E i \in StepsOf({"configure"}) : steps[i].rc = 0
       /\ \E i \in StepsOf({"build"}) : steps[i].rc = 0

\* the binary was found: always after a direct compilation, by
\* binary.exists() after a project build
BinaryFound ==
    \/ \E i \in StepsOf({"compile"}) : steps[i].rc = 0
    \/ \E i \in StepsOf({"exists"}) : steps[i].rc = 0

NoCompilerAvailable == StepsOf({"choose_compiler"}) # {} /\ compiler = NoneVal

NoGeneratorAvailable == StepsOf({"normalize_target"}) # {} /\ generator = NoneVal

BinaryMissing == \E i \in StepsOf({"exists"}) : steps[i].rc = 1

\* the exit code reflects the terminal cause (c >= 0: the child exited
\* with code c)
ExitCodeReflectsCause ==
    /\ exit_code = <<0>> <=>
            /\ BuildSucceeded
            /\ BinaryFound
            /\ \E i \in StepsOf({"exec"}) : steps[i].rc = 0
    /\ \A i \in StepsOf({"configure", "build", "compile", "exec"}) :
            steps[i].rc > 0 => exit_code = <<steps[i].rc>>
    /\ (NoCompilerAvailable \/ NoGeneratorAvailable \/ BinaryMissing)
            => exit_code = <<1>>

StartMarker == "---- build log (" \o LOG_FILE \o ") ----"

EndMarker == "---- end log ----"

\* the places of the output where the log is shown in full between the
\* two markers
LogDumps ==
    {i \in 1..Len(stdout) :
        /\ stdout[i] = StartMarker
        /\ i + Len(log) + 1 <= Len(stdout)
        /\ SubSeq(stdout, i + 1, i + Len(log)) = log
        /\ stdout[i + Len(log) + 1] = EndMarker}

BuildProcessFailed ==
    \E i \in StepsOf({"configure", "build", "compile"}) : steps[i].rc # 0

ConfigOption(cmd) ==
    LET at == {i \in 1..(Len(cmd) - 1) : cmd[i] = "--config"}
    IN  IF at = {} THEN NoneVal ELSE cmd[(CHOOSE i \in at : TRUE) + 1]

\* cmd passes a build-type definition
HasBuildTypeFlag(cmd) ==
    \E i \in 1..Len(cmd) :
        cmd[i] \in {"-DCMAKE_BUILD_TYPE=" \o c : c \in ConfigNames}

\* C8: in a project build with a multi-configuration generator the binary
\* is looked up in the directory of the configuration name that was passed
\* to the build step.
C8_LookupWhereBuilt ==
    \A i \in StepsOf({"exists"}), j \in StepsOf({"build"}) :
        ConfigOption(steps[j].cmd) # NoneVal =>
            binary.parent = "build/" \o ConfigOption(steps[j].cmd)

\* the generator names of the model that contain "multi-config" or
\* "visual studio", ignoring case
MarkedGenerators == {"Ninja Multi-Config", "Visual Studio 17 2022"}

\* C9: the chosen configuration name is handed to cmake in exactly one of
\* the two steps: with --config at build time and with no build-type flag
\* at configure time for a generator whose name carries a
\* multi-configuration marker, with -DCMAKE_BUILD_TYPE at configure time
\* and not at build time for every other generator.
C9_ConfigPassedOnce ==
    /\ \A i \in StepsOf({"configure"}) :
        /\ ConfigOption(steps[i].cmd) = NoneVal
        /\ IF generator \in MarkedGenerators
           THEN ~HasBuildTypeFlag(steps[i].cmd)
           ELSE \E k \in 1..Len(steps[i].cmd) :
                    steps[i].cmd[k] = "-DCMAKE_BUILD_TYPE=" \o build_config
    /\ \A i \in StepsOf({"build"}) :
        /\ ~HasBuildTypeFlag(steps[i].cmd)
        /\ ConfigOption(steps[i].cmd) =
                IF generator \in MarkedGenerators THEN build_config ELSE NoneVal

\* a Visual Studio build of configuration Release, and a configure step
\* before it
C9_Witness ==
    /\ generator = "Visual Studio 17 2022"
    /\ build_config = "Release"
    /\ StepsOf({"configure"}) # {}
    /\ \E i \in StepsOf({"build"}) :
        steps[i].rc = 0 /\ ConfigOption(steps[i].cmd) = "Release"

\* C10: every step occurs at most once and in the fixed order: the target
\* program runs only after a successful direct compilation or after
\* configure, build and the existence test succeeded in that order, build
\* only after a successful configure; and a run with --list-generators or
\* --print-binary ends with exit code 0 and without any of these steps.
C10_FixedOrder ==
    /\ \A op \in {"configure", "build", "compile", "exec", "exec_failed"} :
        Cardinality(StepsOf({op})) <= 1
    /\ Cardinality(StepsOf({"exec", "exec_failed"})) <= 1
    /\ \A e \in StepsOf({"exec", "exec_failed"}) :
        \/ \E i \in StepsOf({"compile"}) : i < e /\ steps[i].rc = 0
        \/ \E i \in StepsOf({"configure"}), j \in StepsOf({"build"}),
              k \in StepsOf({"exists"}) :
                /\ i < j /\ j < k /\ k < e
                /\ steps[i].rc = 0 /\ steps[j].rc = 0 /\ steps[k].rc = 0
    /\ \A j \in StepsOf({"build"}) :
        \E i \in StepsOf({"configure"}) : i < j /\ steps[i].rc = 0
    /\ EarlyExit =>
        /\ StepsOf({"configure", "build", "compile", "mkdtemp", "exec",
                    "exec_failed"}) = {}
        /\ pc \in {"start", "parsed", "exited"}
        /\ Exited => exit_code = <<0>>

====
